---- MODULE Spec2Model ----
(***************************************************************************)
(* A model of room-price-processor (src/main.py): DataLoader, RoomProcessor,*)
(* OutputHandler and the top-level run.                                     *)
(*                                                                          *)
(* JSON values are records tagged with the Python type json.load gives      *)
(* them ("dict", "list", "str", "int", "float", "bool", "NoneType").        *)
(* A float is [k, n]: k = "fin" with n counting eighths, which a double      *)
(* holds exactly, so that < and + are exact and round(x, 2) meets an exact  *)
(* tie wherever the decimal value lies halfway; k = "cents" with n counting *)
(* hundredths for what round(x, 2) returns; or k one of "inf", "-inf",      *)
(* "nan". Prices with more than three binary places are outside the model.  *)
(* A mapping is the sequence of its entries in insertion order.             *)
(***************************************************************************)
EXTENDS Integers, Sequences, FiniteSets, TLC

VARIABLES pc, file, data, room_processor, cheapest_room, total_prices,
          output, writes, log, exc, exit_status

vars == <<pc, file, data, room_processor, cheapest_room, total_prices,
          output, writes, log, exc, exit_status>>

(***************************************************************************)
(* Bounds of the model.                                                     *)
(***************************************************************************)
MaxRecords == 2
MaxRooms == 2

(***************************************************************************)
(* Floating-point numbers.                                                  *)
(***************************************************************************)
Fin(n) == [k |-> "fin", n |-> n]
\* the double nearest to n hundredths: a result of round(x, 2)
Cents(n) == [k |-> "cents", n |-> n]
PosInf == [k |-> "inf", n |-> 0]
NegInf == [k |-> "-inf", n |-> 0]
NaN == [k |-> "nan", n |-> 0]
\* what a str that float() rejects carries in place of a number
NotANumber == [k |-> "bad", n |-> 0]

\* a < b on floats (rounded values are never compared): every comparison with
\* nan is false
FLess(a, b) ==
    CASE a.k = "nan" \/ b.k = "nan" -> FALSE
      [] a.k = "-inf" -> b.k # "-inf"
      [] a.k = "inf" -> FALSE
      [] b.k = "inf" -> TRUE
      [] b.k = "-inf" -> FALSE
      [] OTHER -> a.n < b.n

\* a + b on floats
FAdd(a, b) ==
    CASE a.k = "nan" \/ b.k = "nan" -> NaN
      [] a.k = "inf" /\ b.k = "-inf" -> NaN
      [] a.k = "-inf" /\ b.k = "inf" -> NaN
      [] a.k \in {"inf", "-inf"} -> a
      [] b.k \in {"inf", "-inf"} -> b
      [] OTHER -> Fin(a.n + b.n)

\* round(x, 2) of n eighths, 25 * n / 2 hundredths: the nearest hundredth,
\* and the even one when 25 * n is odd, where the double lies exactly halfway;
\* inf, nan and a value that is a rounded one already are returned as they are
Round2(x) ==
    IF x.k # "fin" THEN x
    ELSE IF (25 * x.n) % 2 = 0 THEN Cents((25 * x.n) \div 2)
    ELSE IF ((25 * x.n - 1) \div 2) % 2 = 0 THEN Cents((25 * x.n - 1) \div 2)
    ELSE Cents((25 * x.n + 1) \div 2)

(***************************************************************************)
(* Exceptions and results.                                                  *)
(***************************************************************************)
Exc(kind, msg) == [kind |-> kind, msg |-> msg]
NoExc == Exc("none", "")

\* ValueError and its subclass json.JSONDecodeError are the source's DataError
IsDataError(e) == e.kind \in {"ValueError", "JSONDecodeError"}

Info(msg) == [level |-> "INFO", msg |-> msg]
Error(msg) == [level |-> "ERROR", msg |-> msg]

(***************************************************************************)
(* float(value)                                                             *)
(***************************************************************************)
\* a JSON scalar is [t, f]: f is its number (for a str, what float() parses it to)
JVal(t, f) == [t |-> t, f |-> f]
JNull == JVal("NoneType", NotANumber)

PyFloat(v) ==
    CASE v.t \in {"int", "float", "bool"} -> [exc |-> NoExc, f |-> v.f]
      [] v.t = "str" ->
            IF v.f.k = "bad"
            THEN [exc |-> Exc("ValueError", "could not convert string to float"),
                  f |-> NaN]
            ELSE [exc |-> NoExc, f |-> v.f]
      [] OTHER ->
            [exc |-> Exc("TypeError",
                         "float() argument must be a string or a real number, not '"
                            \o v.t \o "'"),
              f |-> NaN]

(***************************************************************************)
(* JSON containers.                                                         *)
(***************************************************************************)
\* a value read as a mapping: m holds its entries when t = "dict"
JMap(t, m) == [t |-> t, m |-> m]
Entry(key, val) == [key |-> key, val |-> val]
Keys(m) == {m[i].key : i \in 1..Len(m)}

\* the value of ext_data["taxes"]: t is its own type and, for a str, dt and m
\* are the type and the entries of what the string decodes to ("invalid" when
\* it is not JSON)
JTaxes(t, dt, m) == [t |-> t, dt |-> dt, m |-> m]
\* the value of ext_data
JExt(t, has_taxes, taxes) == [t |-> t, has_taxes |-> has_taxes, taxes |-> taxes]

RequiredKeys == <<"shown_price", "net_price", "number_of_guests", "ext_data">>
AllKeys == {RequiredKeys[i] : i \in 1..Len(RequiredKeys)}

\* an element of assignment_results: has is the set of required keys k for
\* which `k in item` is true
JItem(t, has, sp, np, ng, ext) ==
    [t |-> t, has |-> has, shown_price |-> sp, net_price |-> np,
     number_of_guests |-> ng, ext_data |-> ext]

\* the top-level value: has_ar is what `"assignment_results" in data` gives,
\* ar_t the type of data["assignment_results"] and items its elements (for a
\* str, one element for each of its characters)
JDoc(t, has_ar, ar_t, items) ==
    [t |-> t, has_ar |-> has_ar, ar_t |-> ar_t, items |-> items]

\* obj[key] for a str key on a value of type t that is not a dict
SubscriptError(t) ==
    CASE t = "list" -> Exc("TypeError", "list indices must be integers or slices, not str")
      [] t = "str" -> Exc("TypeError", "string indices must be integers, not 'str'")
      [] OTHER -> Exc("TypeError", "'" \o t \o "' object is not subscriptable")

\* `key in obj` on a value of type t that is no container
NotIterable(t) == Exc("TypeError", "argument of type '" \o t \o "' is not iterable")

NoAttribute(t, attr) ==
    Exc("AttributeError", "'" \o t \o "' object has no attribute '" \o attr \o "'")

(***************************************************************************)
(* RoomProcessor                                                            *)
(***************************************************************************)
\* json.loads(taxes)
JsonLoads(taxes) ==
    CASE taxes.t # "str" ->
            [exc |-> Exc("TypeError",
                         "the JSON object must be str, bytes or bytearray, not "
                            \o taxes.t),
             val |-> JMap("NoneType", <<>>)]
      [] taxes.dt = "invalid" ->
            [exc |-> Exc("JSONDecodeError", "Expecting value"),
             val |-> JMap("NoneType", <<>>)]
      [] OTHER -> [exc |-> NoExc, val |-> JMap(taxes.dt, taxes.m)]

NoProcessor ==
    [shown_prices |-> JMap("NoneType", <<>>), net_prices |-> JMap("NoneType", <<>>),
     taxes |-> JMap("NoneType", <<>>), number_of_guests |-> JNull]

\* item[key] for a required key
ItemLookup(item, key) ==
    CASE item.t # "dict" -> SubscriptError(item.t)
      [] key \notin item.has -> Exc("KeyError", "'" \o key \o "'")
      [] OTHER -> NoExc

\* item["ext_data"]["taxes"]
TaxesLookup(item) ==
    CASE ItemLookup(item, "ext_data") # NoExc -> ItemLookup(item, "ext_data")
      [] item.ext_data.t # "dict" -> SubscriptError(item.ext_data.t)
      [] ~item.ext_data.has_taxes -> Exc("KeyError", "'taxes'")
      [] OTHER -> NoExc

\* RoomProcessor.__init__
RoomProcessorInit(item) ==
    LET e1 == ItemLookup(item, "shown_price")
        e2 == ItemLookup(item, "net_price")
        e3 == TaxesLookup(item)
        js == JsonLoads(item.ext_data.taxes)
        e4 == ItemLookup(item, "number_of_guests")
        e == CASE e1 # NoExc -> e1
               [] e2 # NoExc -> e2
               [] e3 # NoExc -> e3
               [] js.exc # NoExc -> js.exc
               [] OTHER -> e4
    IN  IF e # NoExc THEN [exc |-> e, val |-> NoProcessor]
        ELSE [exc |-> NoExc,
              val |-> [shown_prices |-> item.shown_price,
                       net_prices |-> item.net_price,
                       taxes |-> js.val,
                       number_of_guests |-> item.number_of_guests]]

\* the loop of find_cheapest_room from entry i on
RECURSIVE ScanPrices(_, _, _, _)
ScanPrices(m, i, cheapest_price, cheapest_room_type) ==
    IF i > Len(m)
    THEN [exc |-> NoExc, price |-> cheapest_price, room |-> cheapest_room_type]
    ELSE LET c == PyFloat(m[i].val)
         IN  IF c.exc # NoExc
             THEN [exc |-> c.exc, price |-> cheapest_price, room |-> cheapest_room_type]
             ELSE IF FLess(c.f, cheapest_price)
                  THEN ScanPrices(m, i + 1, c.f, m[i].key)
                  ELSE ScanPrices(m, i + 1, cheapest_price, cheapest_room_type)

NoCheapest == [room_type |-> "", price |-> NaN, number_of_guests |-> JNull]

\* RoomProcessor.find_cheapest_room
find_cheapest_room(self) ==
    LET start == <<Info("Finding the cheapest room.")>>
        scan == ScanPrices(self.shown_prices.m, 1, PosInf, "")
    IN  CASE self.shown_prices.t # "dict" ->
                [exc |-> NoAttribute(self.shown_prices.t, "items"),
                 val |-> NoCheapest, log |-> start]
          [] scan.exc # NoExc ->
                [exc |-> scan.exc, val |-> NoCheapest, log |-> start]
          [] OTHER ->
                [exc |-> NoExc,
                 val |-> [room_type |-> scan.room,
                          price |-> Round2(scan.price),
                          number_of_guests |-> self.number_of_guests],
                 log |-> Append(start, Info("Cheapest room found: %s with price %f"))]

\* a sum that keeps the last amount only
RECURSIVE SumTaxesLast(_, _, _)
SumTaxesLast(m, i, acc) ==
    IF i > Len(m) THEN [exc |-> NoExc, f |-> acc]
    ELSE LET c == PyFloat(m[i].val)
         IN  IF c.exc # NoExc THEN [exc |-> c.exc, f |-> acc]
             ELSE SumTaxesLast(m, i + 1, c.f)

\* sum(float(value) for value in self.taxes.values()) from entry i on
RECURSIVE SumTaxes(_, _, _)
SumTaxes(m, i, acc) ==
    IF i > Len(m) THEN [exc |-> NoExc, f |-> acc]
    ELSE LET c == PyFloat(m[i].val)
         IN  IF c.exc # NoExc THEN [exc |-> c.exc, f |-> acc]
             ELSE SumTaxes(m, i + 1, FAdd(acc, c.f))

TotalEntry(room, net_price, total) ==
    [room |-> room, net_price |-> net_price, total_price_with_taxes |-> total]

\* total_prices[room] = entry: a key seen before keeps its place
SetItem(total, entry) ==
    IF \E j \in 1..Len(total) : total[j].room = entry.room
    THEN [j \in 1..Len(total) |->
            IF total[j].room = entry.room THEN entry ELSE total[j]]
    ELSE Append(total, entry)

\* the loop of calculate_total_prices from entry i on
RECURSIVE ScanNetPrices(_, _, _, _)
ScanNetPrices(m, i, total_taxes, total) ==
    IF i > Len(m) THEN [exc |-> NoExc, val |-> total]
    ELSE LET c == PyFloat(m[i].val)
         IN  IF c.exc # NoExc THEN [exc |-> c.exc, val |-> total]
             ELSE ScanNetPrices(m, i + 1, total_taxes,
                      SetItem(total,
                          TotalEntry(m[i].key, m[i].val,
                                     Round2(FAdd(c.f, total_taxes)))))

\* RoomProcessor.calculate_total_prices
calculate_total_prices(self) ==
    LET start == <<Info("Calculating total prices for each room.")>>
        taxsum == SumTaxes(self.taxes.m, 1, Fin(0))
        scan == ScanNetPrices(self.net_prices.m, 1, taxsum.f, <<>>)
    IN  CASE self.taxes.t # "dict" ->
                [exc |-> NoAttribute(self.taxes.t, "values"), val |-> <<>>, log |-> start]
          [] taxsum.exc # NoExc ->
                [exc |-> taxsum.exc, val |-> <<>>, log |-> start]
          [] self.net_prices.t # "dict" ->
                [exc |-> NoAttribute(self.net_prices.t, "items"), val |-> <<>>,
                 log |-> start]
          [] scan.exc # NoExc ->
                [exc |-> scan.exc, val |-> <<>>, log |-> start]
          [] OTHER ->
                [exc |-> NoExc, val |-> scan.val,
                 log |-> Append(start, Info("Total prices calculated successfully."))]

(***************************************************************************)
(* DataLoader                                                               *)
(***************************************************************************)
MissingKey(key) ==
    Exc("ValueError", "Invalid data: Missing key '" \o key \o "' in assignment results.")
MustBeList == Exc("ValueError", "Invalid data: 'assignment_results' must be a list.")
IsEmpty == Exc("ValueError", "Invalid data: 'assignment_results' is empty.")
BadShownPrice ==
    Exc("ValueError", "Invalid data: 'shown_price' must be a non-empty dictionary.")
BadNetPrice ==
    Exc("ValueError", "Invalid data: 'net_price' must be a non-empty dictionary.")
BadGuests == Exc("ValueError", "Invalid data: 'number_of_guests' must be an integer.")
BadExtData ==
    Exc("ValueError", "Invalid data: 'ext_data' must contain a 'taxes' dictionary.")

\* isinstance(value, int): bool is a subclass of int
IsInstanceInt(v) == v.t \in {"int", "bool"}

\* the loop over required_keys from key i on
RECURSIVE CheckKeys(_, _)
CheckKeys(item, i) ==
    IF i > Len(RequiredKeys) THEN NoExc
    ELSE CASE item.t \notin {"dict", "list", "str"} -> NotIterable(item.t)
           [] RequiredKeys[i] \notin item.has -> MissingKey(RequiredKeys[i])
           [] OTHER -> CheckKeys(item, i + 1)

\* the body of the loop over assignment_results, for one item
ValidateItem(item) ==
    CASE CheckKeys(item, 1) # NoExc -> CheckKeys(item, 1)
      [] item.t # "dict" -> SubscriptError(item.t)
      [] item.shown_price.t # "dict" \/ item.shown_price.m = <<>> -> BadShownPrice
      [] item.net_price.t # "dict" \/ item.net_price.m = <<>> -> BadNetPrice
      [] ~IsInstanceInt(item.number_of_guests) -> BadGuests
      [] item.ext_data.t # "dict" \/ ~item.ext_data.has_taxes -> BadExtData
      [] OTHER -> NoExc

\* the loop over assignment_results from item i on
RECURSIVE ValidateItems(_, _)
ValidateItems(items, i) ==
    IF i > Len(items) THEN NoExc
    ELSE IF ValidateItem(items[i]) # NoExc THEN ValidateItem(items[i])
    ELSE ValidateItems(items, i + 1)

\* the exception validate_data raises on d, NoExc when it returns
ValidateExc(d) ==
    CASE d.t \notin {"dict", "list", "str"} -> NotIterable(d.t)
      [] ~d.has_ar -> MustBeList
      [] d.t # "dict" -> SubscriptError(d.t)
      [] d.ar_t # "list" -> MustBeList
      [] d.items = <<>> -> IsEmpty
      [] OTHER -> ValidateItems(d.items, 1)

\* DataLoader.validate_data: a ValueError is logged before it is raised
validate_data(d) ==
    LET e == ValidateExc(d)
        start == <<Info("Validating data structure.")>>
    IN  [exc |-> e,
         log |-> CASE e = NoExc ->
                        Append(start, Info("Data validation completed successfully."))
                   [] e.kind = "ValueError" -> Append(start, Error(e.msg))
                   [] OTHER -> start]

NoDoc == JDoc("NoneType", FALSE, "NoneType", <<>>)

\* the input file: st says whether it opens and parses, doc is what it parses to
File(st, doc) == [st |-> st, doc |-> doc]

\* DataLoader.load_data
load_data(f) ==
    LET start == <<Info("Loading data from file: %s")>>
        v == validate_data(f.doc)
    IN  CASE f.st = "missing" ->
                [exc |-> Exc("FileNotFoundError", "No such file or directory"),
                 val |-> <<>>, log |-> start]
          [] f.st = "notjson" ->
                [exc |-> Exc("JSONDecodeError", "Expecting value"),
                 val |-> <<>>, log |-> start]
          [] v.exc # NoExc ->
                [exc |-> v.exc, val |-> <<>>, log |-> start \o v.log]
          [] OTHER ->
                [exc |-> NoExc, val |-> <<f.doc>>,
                 log |-> Append(start \o v.log,
                                Info("Data loaded and validated successfully."))]

(***************************************************************************)
(* OutputHandler                                                            *)
(***************************************************************************)
NoOutput == [st |-> "absent", cheapest_room |-> <<>>, total_prices |-> <<>>]

\* OutputHandler.save_output: env is what the file system does ("ok", the
\* open fails, or the write fails after the open has truncated the file)
save_output(env, cheapest, totals) ==
    CASE env = "open_fails" ->
            [exc |-> Exc("PermissionError", "Permission denied"),
             opened |-> FALSE, out |-> NoOutput, log |-> <<>>]
      [] env = "write_fails" ->
            [exc |-> Exc("OSError", "No space left on device"),
             opened |-> TRUE,
             out |-> [st |-> "truncated", cheapest_room |-> <<>>, total_prices |-> <<>>],
             log |-> <<>>]
      [] OTHER ->
            [exc |-> NoExc, opened |-> TRUE,
             out |-> [st |-> "written", cheapest_room |-> cheapest,
                      total_prices |-> totals],
             log |-> <<Info("Output has been saved to %s")>>]

(***************************************************************************)
(* Inputs.                                                                  *)
(***************************************************************************)
SeqsUpTo(S, n) == UNION {[1..k -> S] : k \in 0..n}
DistinctKeys(m) == \A i, j \in 1..Len(m) : i # j => m[i].key # m[j].key
\* the mappings of at most n entries with keys in K and values in V
Maps(K, V, n) == {m \in SeqsUpTo([key : K, val : V], n) : DistinctKeys(m)}

Rooms == {"Standard", "Deluxe", "Suite"}
TaxNames == {"vat", "city_tax"}

\* the record of the repository's sample input
SampleShown == JMap("dict", <<Entry("Standard", JVal("str", Fin(800))),
                               Entry("Deluxe", JVal("str", Fin(1200)))>>)
SampleNet == JMap("dict", <<Entry("Standard", JVal("str", Fin(720))),
                             Entry("Deluxe", JVal("str", Fin(1040)))>>)
SampleGuests == JVal("int", Fin(16))
SampleTaxEntries == <<Entry("vat", JVal("float", Fin(80))),
                      Entry("city_tax", JVal("float", Fin(40)))>>
SampleTaxes == JTaxes("str", "dict", SampleTaxEntries)
SampleExt == JExt("dict", TRUE, SampleTaxes)
SampleItem == JItem("dict", AllKeys, SampleShown, SampleNet, SampleGuests, SampleExt)

\* values of shown_price, net_price, number_of_guests and ext_data in the
\* documents of the run
RunShown ==
    {SampleShown,
     JMap("dict", <<Entry("Standard", JVal("float", PosInf))>>),
     JMap("dict", <<Entry("Standard", JVal("str", NotANumber))>>),
     JMap("dict", <<>>),
     JMap("list", <<>>)}
RunNet ==
    {SampleNet,
     JMap("dict", <<Entry("Suite", JNull)>>),
     JMap("dict", <<>>),
     JMap("NoneType", <<>>)}
RunGuests ==
    {SampleGuests, JVal("bool", Fin(8)), JVal("bool", Fin(0)),
     JVal("str", Fin(16)), JVal("float", Fin(20)), JNull,
     JVal("list", NotANumber), JVal("dict", NotANumber)}
RunTaxes ==
    {SampleTaxes,
     JTaxes("str", "invalid", <<>>),
     JTaxes("str", "list", <<>>),
     JTaxes("str", "dict", <<Entry("vat", JNull)>>),
     JTaxes("dict", "dict", SampleTaxEntries),
     JTaxes("NoneType", "NoneType", <<>>)}
RunExt ==
    {JExt("NoneType", FALSE, SampleTaxes), JExt("dict", FALSE, SampleTaxes)}
        \cup {JExt("dict", TRUE, t) : t \in RunTaxes}

\* the first element of assignment_results
RunItems ==
    {JItem("dict", AllKeys, sp, np, ng, ext) :
        sp \in RunShown, np \in RunNet, ng \in RunGuests, ext \in RunExt}
    \cup {JItem("dict", has, SampleShown, SampleNet, SampleGuests, SampleExt) :
            has \in (SUBSET AllKeys) \ {AllKeys}}
    \cup {JItem(t, {}, SampleShown, SampleNet, SampleGuests, SampleExt) :
            t \in {"int", "float", "bool", "NoneType", "list", "str"}}
    \cup {JItem(t, AllKeys, SampleShown, SampleNet, SampleGuests, SampleExt) :
            t \in {"list", "str"}}

\* the elements after the first
TailItems ==
    {SampleItem,
     JItem("NoneType", {}, SampleShown, SampleNet, SampleGuests, SampleExt),
     JItem("dict", AllKeys \ {"net_price"}, SampleShown, SampleNet, SampleGuests,
           SampleExt),
     JItem("dict", AllKeys, JMap("dict", <<>>), SampleNet, SampleGuests, SampleExt),
     JItem("dict", AllKeys, SampleShown, SampleNet, JVal("str", Fin(16)), SampleExt),
     JItem("dict", AllKeys, SampleShown, SampleNet, JVal("bool", Fin(8)),
           JExt("dict", FALSE, SampleTaxes))}

\* a character of a str: a str itself
CharItem == JItem("str", {}, SampleShown, SampleNet, SampleGuests, SampleExt)

\* documents that are no mapping with a list of records
OddDocs ==
    {JDoc(t, FALSE, "NoneType", <<>>) :
        t \in {"int", "float", "bool", "NoneType", "list", "str", "dict"}}
    \cup {JDoc(t, TRUE, "list", <<SampleItem>>) : t \in {"list", "str"}}
    \cup {JDoc("dict", TRUE, t, <<>>) : t \in {"dict", "str", "int", "NoneType", "list"}}
    \cup {JDoc("dict", TRUE, "str", <<CharItem>>)}

Files ==
    {File("missing", NoDoc), File("notjson", NoDoc)} \cup {File("json", d) : d \in OddDocs}

(***************************************************************************)
(* The top-level run.                                                       *)
(***************************************************************************)
Init ==
    /\ pc = "start"
    /\ \/ file \in Files
       \/ \E first \in RunItems, tail \in SeqsUpTo(TailItems, MaxRecords - 1) :
            file = File("json", JDoc("dict", TRUE, "list", <<first>> \o tail))
    /\ data = <<>>
    /\ room_processor = <<>>
    /\ cheapest_room = <<>>
    /\ total_prices = <<>>
    /\ output = NoOutput
    /\ writes = 0
    /\ log = <<>>
    /\ exc = NoExc
    /\ exit_status = "running"

\* a try block that goes on after a statement has raised
AfterStatementGoesOn(next, e) == next

\* where the try block goes after a statement: on, or to the except clause
AfterStatement(next, e) == IF e = NoExc THEN next ELSE "except"

\* `except ValueError`
CatchesValueError(e) == IsDataError(e)

\* `except Exception`: every exception of the model derives from Exception
Catches(e) == TRUE

\* data = data_loader.load_data()
LoadData ==
    /\ pc = "start"
    /\ LET r == load_data(file)
       IN  /\ data' = r.val
           /\ log' = log \o r.log
           /\ exc' = r.exc
           /\ pc' = AfterStatement("loaded", r.exc)
    /\ UNCHANGED <<file, room_processor, cheapest_room, total_prices, output, writes,
                   exit_status>>

\* data["assignment_results"][0]
FirstRecord(d) ==
    CASE d = <<>> ->
            [exc |-> SubscriptError("NoneType"), val |-> SampleItem]
      [] d[1].t # "dict" ->
            [exc |-> SubscriptError(d[1].t), val |-> SampleItem]
      [] ~d[1].has_ar ->
            [exc |-> Exc("KeyError", "'assignment_results'"), val |-> SampleItem]
      [] d[1].ar_t = "dict" ->
            [exc |-> Exc("KeyError", "0"), val |-> SampleItem]
      [] d[1].ar_t \notin {"list", "str"} ->
            [exc |-> SubscriptError(d[1].ar_t), val |-> SampleItem]
      [] d[1].items = <<>> ->
            [exc |-> Exc("IndexError",
                         IF d[1].ar_t = "str" THEN "string index out of range"
                         ELSE "list index out of range"),
             val |-> SampleItem]
      [] OTHER -> [exc |-> NoExc, val |-> d[1].items[1]]

\* assignment_results = data["assignment_results"][0]
\* room_processor = RoomProcessor(assignment_results)
Construct ==
    /\ pc = "loaded"
    /\ LET first == FirstRecord(data)
           r == RoomProcessorInit(first.val)
           e == IF first.exc # NoExc THEN first.exc ELSE r.exc
       IN  /\ room_processor' = IF e = NoExc THEN <<r.val>> ELSE room_processor
           /\ exc' = IF e = NoExc THEN exc ELSE e
           /\ pc' = AfterStatement("constructed", e)
    /\ UNCHANGED <<file, data, cheapest_room, total_prices, output, writes, log,
                   exit_status>>

\* a method called on room_processor
Self(rp) == IF rp = <<>> THEN NoProcessor ELSE rp[1]

\* cheapest_room = room_processor.find_cheapest_room()
FindCheapestRoom ==
    /\ pc = "constructed"
    /\ LET r == find_cheapest_room(Self(room_processor))
       IN  /\ cheapest_room' = IF r.exc = NoExc THEN <<r.val>> ELSE cheapest_room
           /\ log' = log \o r.log
           /\ exc' = IF r.exc = NoExc THEN exc ELSE r.exc
           /\ pc' = AfterStatement("cheapest", r.exc)
    /\ UNCHANGED <<file, data, room_processor, total_prices, output, writes,
                   exit_status>>

\* total_prices = room_processor.calculate_total_prices()
CalculateTotalPrices ==
    /\ pc = "cheapest"
    /\ LET r == calculate_total_prices(Self(room_processor))
       IN  /\ total_prices' = IF r.exc = NoExc THEN <<r.val>> ELSE total_prices
           /\ log' = log \o r.log
           /\ exc' = IF r.exc = NoExc THEN exc ELSE r.exc
           /\ pc' = AfterStatement("totals", r.exc)
    /\ UNCHANGED <<file, data, room_processor, cheapest_room, output, writes,
                   exit_status>>

\* output_handler.save_output(cheapest_room, total_prices), and the end of
\* the run when it returns
SaveOutput ==
    /\ pc = "totals"
    /\ \E env \in {"ok", "open_fails", "write_fails"} :
        LET r == save_output(env, cheapest_room, total_prices)
        IN  /\ output' = IF r.opened THEN r.out ELSE output
            /\ writes' = IF r.opened THEN writes + 1 ELSE writes
            /\ log' = log \o r.log
            /\ exc' = IF r.exc = NoExc THEN exc ELSE r.exc
            /\ pc' = AfterStatement("done", r.exc)
            /\ exit_status' = IF r.exc = NoExc THEN "normal" ELSE exit_status
    /\ UNCHANGED <<file, data, room_processor, cheapest_room, total_prices>>

\* except Exception as e: logger.error("An error occurred: %s", e)
HandleException ==
    /\ pc = "except"
    /\ pc' = "done"
    /\ IF Catches(exc)
       THEN /\ log' = Append(log, Error("An error occurred: " \o exc.msg))
            /\ exit_status' = "normal"
       ELSE /\ log' = log
            /\ exit_status' = "traceback"
    /\ UNCHANGED <<file, data, room_processor, cheapest_room, total_prices, output,
                   writes, exc>>

Next ==
    \/ LoadData
    \/ Construct
    \/ FindCheapestRoom
    \/ CalculateTotalPrices
    \/ SaveOutput
    \/ HandleException

Spec == Init /\ [][Next]_vars

\* the run is sequential: a statement that can execute does
FairSpec == Spec /\ WF_vars(Next)

(***************************************************************************)
(* A RoomProcessor built on a record that no DataLoader has validated: the  *)
(* statements of the run from the construction on, a fault going to the     *)
(* caller.                                                                  *)
(***************************************************************************)
PriceVals ==
    {JVal("float", Fin(1)), JVal("float", Fin(3)), JVal("str", Fin(1)),
     JVal("int", Fin(8)), JVal("float", PosInf), JVal("str", NegInf),
     JVal("str", NaN), JVal("str", NotANumber), JNull}
NetVals ==
    {JVal("float", Fin(1)), JVal("float", Fin(2)), JVal("str", Fin(720)),
     JVal("float", PosInf), JVal("str", NotANumber)}
TaxVals ==
    {JVal("float", Fin(1)), JVal("float", Fin(2)), JVal("str", Fin(40)),
     JVal("str", NotANumber), JVal("bool", Fin(8))}
ProcGuests == {SampleGuests, JVal("int", Fin(8))}
ProcTaxes ==
    {JTaxes("str", "dict", m) : m \in Maps(TaxNames, TaxVals, Cardinality(TaxNames))}
        \cup RunTaxes

\* the record the processor is built on
ProcItem(item) ==
    /\ file = File("json", JDoc("dict", TRUE, "list", <<item>>))
    /\ data = <<JDoc("dict", TRUE, "list", <<item>>)>>

InitProc ==
    /\ pc = "loaded"
    /\ \/ \E m \in Maps(Rooms, PriceVals, MaxRooms), ng \in ProcGuests :
            ProcItem(JItem("dict", AllKeys, JMap("dict", m), SampleNet, ng, SampleExt))
       \/ \E m \in Maps(Rooms, NetVals, MaxRooms), t \in ProcTaxes :
            ProcItem(JItem("dict", AllKeys, SampleShown, JMap("dict", m), SampleGuests,
                           JExt("dict", TRUE, t)))
    /\ room_processor = <<>>
    /\ cheapest_room = <<>>
    /\ total_prices = <<>>
    /\ output = NoOutput
    /\ writes = 0
    /\ log = <<>>
    /\ exc = NoExc
    /\ exit_status = "running"

NextProc ==
    \/ Construct
    \/ FindCheapestRoom
    \/ CalculateTotalPrices

SpecProc == InitProc /\ [][NextProc]_vars

(***************************************************************************)
(* What the specification's words mean on the values of the model.          *)
(***************************************************************************)
\* a price or an amount that converts to a number
Parseable(v) == v.t \in {"int", "float", "bool"} \/ (v.t = "str" /\ v.f.k # "bad")
AllParseable(m) == \A i \in 1..Len(m) : Parseable(m[i].val)
\* its number
Amount(v) == v.f
\* the value a mapping holds for a key it has
ValueOf(m, key) == m[CHOOSE i \in 1..Len(m) : m[i].key = key].val
IndexOf(m, key) == CHOOSE i \in 1..Len(m) : m[i].key = key
\* a <= b
FLeq(a, b) == a.k # "nan" /\ b.k # "nan" /\ ~FLess(b, a)
\* r is x rounded to 2 decimals: the nearest hundredth, the even one of two
\* equally near (x in eighths, r in hundredths, compared in 1/200)
IsRounded2(x, r) ==
    IF x.k # "fin" THEN r = x
    ELSE /\ r.k = "cents"
         /\ 2 * r.n - 25 * x.n \in {-1, 0, 1}
         /\ (2 * r.n # 25 * x.n => r.n % 2 = 0)
\* the sum of all tax amounts
RECURSIVE TaxTotal(_)
TaxTotal(m) == IF m = <<>> THEN Fin(0) ELSE FAdd(Amount(Head(m).val), TaxTotal(Tail(m)))

\* a JSON integer
JsonInteger(v) == v.t = "int"
NonEmptyMapping(v) == v.t = "dict" /\ v.m # <<>>
\* a record that breaks none of the record checks
WellFormed(item) ==
    /\ item.t = "dict"
    /\ item.has = AllKeys
    /\ NonEmptyMapping(item.shown_price)
    /\ NonEmptyMapping(item.net_price)
    /\ JsonInteger(item.number_of_guests)
    /\ item.ext_data.t = "dict"
    /\ item.ext_data.has_taxes

\* the error of the first check a record breaks, in the order of the
\* specification
RecordViolation(item) ==
    CASE item.t # "dict" -> MissingKey(RequiredKeys[1])
      [] item.has # AllKeys ->
            MissingKey(RequiredKeys[CHOOSE i \in 1..Len(RequiredKeys) :
                /\ RequiredKeys[i] \notin item.has
                /\ \A j \in 1..(i - 1) : RequiredKeys[j] \in item.has])
      [] ~NonEmptyMapping(item.shown_price) -> BadShownPrice
      [] ~NonEmptyMapping(item.net_price) -> BadNetPrice
      [] ~JsonInteger(item.number_of_guests) -> BadGuests
      [] item.ext_data.t # "dict" \/ ~item.ext_data.has_taxes -> BadExtData
      [] OTHER -> NoExc

\* the error of the first check a document breaks
DocumentViolation(d) ==
    CASE d.t # "dict" \/ ~d.has_ar \/ d.ar_t # "list" -> MustBeList
      [] d.items = <<>> -> IsEmpty
      [] \A i \in 1..Len(d.items) : WellFormed(d.items[i]) -> NoExc
      [] OTHER ->
            RecordViolation(d.items[CHOOSE i \in 1..Len(d.items) :
                /\ ~WellFormed(d.items[i])
                /\ \A j \in 1..(i - 1) : WellFormed(d.items[j])])

ErrorLines(l) == {i \in 1..Len(l) : l[i].level = "ERROR"}
TopLevelLine(e) == Error("An error occurred: " \o e.msg)
\* the load has ended, one way or the other
Loaded == pc # "start" /\ file.st = "json"
\* the statement that raised
LoadFailed == exc # NoExc /\ data = <<>>
ConstructFailed == exc # NoExc /\ data # <<>> /\ room_processor = <<>>
FindFailed == exc # NoExc /\ room_processor # <<>> /\ cheapest_room = <<>>
CalculateFailed == exc # NoExc /\ cheapest_room # <<>> /\ total_prices = <<>>
\* find_cheapest_room has been called and has ended
FindEnded == room_processor # <<>> /\ pc # "constructed"
CalculateEnded == cheapest_room # <<>> /\ pc # "cheapest"

(***************************************************************************)
(* The claims.                                                              *)
(***************************************************************************)
\* C1: on a non-empty shown_price mapping whose prices all convert to a
\* number, find_cheapest_room returns a key of the mapping whose price is <=
\* every price of the mapping, the first such key in insertion order, with
\* the record's number_of_guests.
C1_CheapestIsMinimum ==
    (/\ cheapest_room # <<>>
     /\ room_processor[1].shown_prices.m # <<>>
     /\ AllParseable(room_processor[1].shown_prices.m))
    => LET m == room_processor[1].shown_prices.m
           r == cheapest_room[1]
       IN  /\ r.room_type \in Keys(m)
           /\ \A i \in 1..Len(m) : FLeq(Amount(ValueOf(m, r.room_type)), Amount(m[i].val))
           /\ \A i \in 1..(IndexOf(m, r.room_type) - 1) :
                Amount(m[i].val) # Amount(ValueOf(m, r.room_type))
           /\ r.number_of_guests = data[1].items[1].number_of_guests

\* The same on finite prices, where it holds.
C1_FinitePrices ==
    (/\ cheapest_room # <<>>
     /\ room_processor[1].shown_prices.m # <<>>
     /\ \A i \in 1..Len(room_processor[1].shown_prices.m) :
            /\ Parseable(room_processor[1].shown_prices.m[i].val)
            /\ Amount(room_processor[1].shown_prices.m[i].val).k = "fin")
    => LET m == room_processor[1].shown_prices.m
           r == cheapest_room[1]
       IN  /\ r.room_type \in Keys(m)
           /\ \A i \in 1..Len(m) : FLeq(Amount(ValueOf(m, r.room_type)), Amount(m[i].val))
           /\ \A i \in 1..(IndexOf(m, r.room_type) - 1) :
                Amount(m[i].val) # Amount(ValueOf(m, r.room_type))
           /\ IsRounded2(Amount(ValueOf(m, r.room_type)), r.price)
           /\ r.number_of_guests = data[1].items[1].number_of_guests

\* C2: calculate_total_prices returns one entry per room of net_price and
\* for no other room; the entry keeps the net price as it was given and its
\* total is the number of the net price plus the sum of all tax amounts,
\* rounded to 2 decimals; it returns whenever the taxes are a mapping and
\* all the amounts and net prices convert to a number.
C2_TotalsAreNetPlusTaxes ==
    /\ (/\ CalculateEnded
        /\ room_processor[1].taxes.t = "dict"
        /\ AllParseable(room_processor[1].taxes.m)
        /\ AllParseable(room_processor[1].net_prices.m))
       => total_prices # <<>>
    /\ total_prices # <<>>
       => LET net == room_processor[1].net_prices.m
              tot == total_prices[1]
              sum == TaxTotal(room_processor[1].taxes.m)
          IN  /\ Len(tot) = Len(net)
              /\ {tot[j].room : j \in 1..Len(tot)} = Keys(net)
              /\ \A i \in 1..Len(net) : \E j \in 1..Len(tot) :
                    /\ tot[j].room = net[i].key
                    /\ tot[j].net_price = net[i].val
                    /\ IsRounded2(FAdd(Amount(net[i].val), sum),
                                  tot[j].total_price_with_taxes)

\* two rooms or more, two taxes or more, a net price given as a string and a
\* total that lies halfway between two hundredths
C2_Witness ==
    /\ total_prices # <<>>
    /\ Len(total_prices[1]) >= 2
    /\ Len(room_processor[1].taxes.m) >= 2
    /\ \E i \in 1..Len(room_processor[1].net_prices.m) :
        LET v == room_processor[1].net_prices.m[i].val
            x == FAdd(Amount(v), TaxTotal(room_processor[1].taxes.m))
        IN  v.t = "str" /\ x.k = "fin" /\ x.n % 2 = 1

\* C3: validation raises the error of the first check the document breaks,
\* in the order document checks, then per record the keys in their order,
\* shown_price, net_price, number_of_guests, ext_data; it logs that one error
\* and no other; a document that breaks no check is returned.
C3_FirstViolationRaised ==
    Loaded =>
        IF DocumentViolation(file.doc) = NoExc
        THEN data = <<file.doc>>
        ELSE /\ LoadFailed
             /\ exc = DocumentViolation(file.doc)
             /\ Cardinality({i \in ErrorLines(log) : log[i] # TopLevelLine(exc)}) = 1

\* C3 on documents that are mappings whose records are mappings with no
\* boolean number_of_guests: there the order is as claimed.
C3_OrderOnMappings ==
    (/\ Loaded
     /\ file.doc.t = "dict"
     /\ \A i \in 1..Len(file.doc.items) :
            /\ file.doc.items[i].t = "dict"
            /\ file.doc.items[i].number_of_guests.t # "bool")
    => IF DocumentViolation(file.doc) = NoExc
       THEN data = <<file.doc>>
       ELSE /\ LoadFailed
            /\ exc = DocumentViolation(file.doc)
            /\ Cardinality({i \in ErrorLines(log) : log[i] # TopLevelLine(exc)}) = 1

\* C4: the output file is opened for writing only when load, construction,
\* find_cheapest_room and calculate_total_prices have returned, in that
\* order; it is opened at most once; when one of these has raised (an empty
\* assignment_results among the causes) the file is left as it was; what is
\* written is what the two methods returned.
C4_LogOrder ==
    <<Info("Loading data from file: %s"),
      Info("Validating data structure."),
      Info("Data validation completed successfully."),
      Info("Data loaded and validated successfully."),
      Info("Finding the cheapest room."),
      Info("Cheapest room found: %s with price %f"),
      Info("Calculating total prices for each room."),
      Info("Total prices calculated successfully.")>>
C4_WrittenOnlyAfterAllStages ==
    /\ writes <= 1
    /\ (writes = 0) = (output = NoOutput)
    /\ writes > 0
       => /\ data = <<file.doc>>
          /\ room_processor # <<>>
          /\ cheapest_room # <<>>
          /\ total_prices # <<>>
          /\ SubSeq(log, 1, Len(C4_LogOrder)) = C4_LogOrder
    /\ total_prices # <<>> => cheapest_room # <<>>
    /\ cheapest_room # <<>> => room_processor # <<>>
    /\ room_processor # <<>> => data # <<>>
    /\ (LoadFailed \/ ConstructFailed \/ FindFailed \/ CalculateFailed) => writes = 0
    /\ (Loaded /\ file.doc.t = "dict" /\ file.doc.has_ar /\ file.doc.ar_t = "list"
            /\ file.doc.items = <<>>)
       => exc = IsEmpty /\ writes = 0
    /\ output.st = "written"
       => /\ output.cheapest_room = cheapest_room
          /\ output.total_prices = total_prices
          /\ exc = NoExc

\* the run has written its output
C4_Witness ==
    /\ pc = "done"
    /\ output.st = "written"
    /\ writes = 1
    /\ Len(output.total_prices[1]) = 2

\* C5: every run ends; a fault of any statement is caught at the top level,
\* logged there once at ERROR level with its message, and the run ends with
\* normal status; after a fault no statement of the pipeline runs.
C5_Done ==
    pc = "done"
    => /\ exit_status = "normal"
       /\ IF exc = NoExc
          THEN ErrorLines(log) = {} /\ output.st = "written"
          ELSE /\ log[Len(log)] = TopLevelLine(exc)
               /\ Cardinality({i \in 1..Len(log) : log[i] = TopLevelLine(exc)}) = 1
C5_NothingAfterFault ==
    (exc # NoExc \/ pc = "done")
    => /\ pc = "except"
       /\ pc' = "done"
       /\ exc' = exc
       /\ UNCHANGED <<data, room_processor, cheapest_room, total_prices, output, writes>>
C5_FaultsAreCaught ==
    /\ [](C5_Done /\ (pc \in {"except", "done"}) = (exc # NoExc \/ exit_status = "normal"))
    /\ [][C5_NothingAfterFault]_vars
    /\ <>(pc = "done")

\* a fault that is no DataError has been caught and the run has ended
C5_Witness ==
    /\ pc = "done"
    /\ exc.kind = "TypeError"
    /\ exit_status = "normal"
    /\ log[Len(log)] = TopLevelLine(exc)

\* C6: when the first record that breaks a check has its four keys and
\* non-empty shown_price and net_price mappings and a number_of_guests that
\* is no JSON integer, load fails with the number_of_guests error.
C6_NonIntegerGuestsRejected ==
    (/\ Loaded
     /\ DocumentViolation(file.doc) = BadGuests)
    => LoadFailed /\ exc = BadGuests

\* C6 for every kind of value but the booleans, where it holds.
C6_ExceptBooleans ==
    (/\ Loaded
     /\ DocumentViolation(file.doc) = BadGuests
     /\ \A i \in 1..Len(file.doc.items) : file.doc.items[i].number_of_guests.t # "bool")
    => LoadFailed /\ exc = BadGuests

\* C7: for a document load has accepted, the construction fails with a
\* DataError or gives taxes that are a mapping of numeric amounts, and
\* calculate_total_prices raises nothing but a DataError.
C7_TaxesFaultsAreDataErrors ==
    /\ ConstructFailed => IsDataError(exc)
    /\ room_processor # <<>>
       => /\ room_processor[1].taxes.t = "dict"
          /\ \A i \in 1..Len(room_processor[1].taxes.m) :
                room_processor[1].taxes.m[i].val.t \in {"int", "float"}
    /\ CalculateFailed => IsDataError(exc)

\* C8: for a file that parses as JSON, load returns the document or fails
\* with a DataError.
C8_LoadFaultsAreDataErrors ==
    Loaded => \/ data = <<file.doc>>
              \/ LoadFailed /\ IsDataError(exc)

\* C9: find_cheapest_room fails with a DataError, and returns nothing, when
\* shown_price is empty or one of its prices does not convert to a number.
C9_EmptyOrUnparseableFails ==
    (/\ FindEnded
     /\ room_processor[1].shown_prices.t = "dict"
     /\ \/ room_processor[1].shown_prices.m = <<>>
        \/ ~AllParseable(room_processor[1].shown_prices.m))
    => FindFailed /\ IsDataError(exc)

\* C10: for a record load has accepted whose shown prices all convert to a
\* float, find_cheapest_room returns a key of shown_price, never the empty
\* string, and the price of that key, rounded.
C10_NoPlaceholderReturned ==
    (cheapest_room # <<>> /\ file.st = "json" /\ data = <<file.doc>>)
    => LET m == room_processor[1].shown_prices.m
           r == cheapest_room[1]
       IN  /\ r.room_type # ""
           /\ r.room_type \in Keys(m)
           /\ IsRounded2(Amount(ValueOf(m, r.room_type)), r.price)

====
